---- MODULE Spec2Model ----
(***************************************************************************)
(* A model of the Redis clone in src/redis: the stream (stream.py), the    *)
(* store with expiry (database.py), the per-connection transaction         *)
(* (transaction.py), the command layer (commands.py), the connection loop  *)
(* (connection.py) and the server with its replica set (server.py).        *)
(*                                                                         *)
(* The asyncio tasks are modelled at the granularity of their suspension   *)
(* points: one action runs a task from one await to the next.              *)
(***************************************************************************)
EXTENDS Integers, Sequences, FiniteSets, TLC

\* ------------------------------------------------------------------ bounds
MaxTime == 1          \* the clock runs over 0..MaxTime (milliseconds)
MaxMs == 1            \* milliseconds parts of the entry IDs a client names
MaxSeq == 1           \* sequence numbers a client names literally
MaxEntries == 2       \* entries appended to the stream
MaxTtl == 2           \* relative expire times a client names
MaxInt == 3           \* integers INCR counts up to
MaxConns == 4         \* connections the server has accepted
MaxCmds == 4          \* commands and ends of stream received, over all connections
MaxTxCmds == 4        \* the same, in the specification of transactions
MaxTxConns == 1       \* clients, in the specification of transactions
MaxWaitCmds == 3      \* the same, in the specification of WAIT
MaxWaitConns == 2     \* connections, in the specification of WAIT
MaxReplCmds == 4      \* the same, in the specification of a replica
MaxPeerCmds == 4      \* the same, and transports lost, in the specification of failures
MaxPeerConns == 3     \* connections, in the specification of failures
MaxXreadCmds == 3     \* commands received, in the specification of XREAD
MaxXreadConns == 2    \* connections, in the specification of XREAD
MaxBlock == 1         \* block times (milliseconds) an XREAD names
MaxDiscardCmds == 4   \* commands received, in the specification of DISCARD
MaxDiscardConns == 2  \* connections, in the specification of DISCARD
MaxExecCmds == 6      \* commands received, in the specification of EXEC
MaxAckCmds == 7       \* commands received, in the specification of acknowledgements

\* float('inf'), the expire timestamp of an entry that never expires
Inf == 1000000

VARIABLES
    now,          \* utils.get_current_timestamp()
    entries,      \* RedisStream._entries: insertion-ordered dict, as a sequence
    seq_lookup,   \* RedisStream._seq_lookup
    sop,          \* the last operation on the stream and what it returned
    database,     \* RedisDatabase._database
    hist,         \* per key: the last set() of it, unless written since
    dop,          \* the last operation on the store and what it returned
    master,       \* RedisServer._master: the upstream connection, 0 for None
    replicas,     \* RedisServer._replicas
    master_repl_offset,  \* RedisServer._master_repl_offset
    pc,           \* per connection: where its task is suspended
    task,         \* per connection: the locals of its suspended task
    transaction,  \* per connection: RedisTransaction._command_queue
    propogate_offset,    \* per connection: RedisConnection.propogate_offset
    ack_offset,   \* per connection: RedisConnection.ack_offset
    out,          \* per connection: what was written to its writer, in order
    broken,       \* the connections whose transport was lost with an error
    xr,           \* per connection: the locals of its XREAD
    acked,        \* per connection: the replies REPLCONF ACK received of its peer
    effects,      \* per SET executed against the store: the replicas then
    rx,           \* per connection: the commands received, their total length
    last,         \* per connection: its last command and the reply to it
    ev,           \* the step taken last
    ncmd          \* how many commands and ends of stream were received

clockVars == <<now>>
streamVars == <<entries, seq_lookup, sop>>
storeVars == <<hist, dop>>
srvVars == <<master, replicas, master_repl_offset, pc, task, transaction,
             propogate_offset, ack_offset, out, broken, xr, acked, effects, rx,
             last, ncmd>>
vars == <<now, entries, seq_lookup, sop, database, hist, dop, master, replicas,
          master_repl_offset, pc, task, transaction, propogate_offset,
          ack_offset, out, broken, xr, acked, effects, rx, last, ev, ncmd>>

\* ------------------------------------------------------------ stream.py
EntryId(ms, seq) == [ms |-> ms, seq |-> seq]

\* dataclass(order=True): the IDs compare as the tuples (ms, seq)
IdLt(a, b) == a.ms < b.ms \/ (a.ms = b.ms /\ a.seq < b.seq)
IdLe(a, b) == a = b \/ IdLt(a, b)

\* RedisStreamEntryId.__add__
IdAdd(a, b) == EntryId(a.ms + b.ms, a.seq + b.seq)

\* The text of an ID, by its shape: "*", "<ms>", "<ms>-*", "<ms>-<seq>"
IdText(form, ms, seq) == [form |-> form, ms |-> ms, seq |-> seq]
IdTexts ==
    {IdText("star", 0, 0)}
    \cup {IdText("int", ms, 0) : ms \in 0..MaxMs}
    \cup {IdText("auto", ms, 0) : ms \in 0..MaxMs}
    \cup {IdText("full", ms, seq) : ms \in 0..MaxMs, seq \in (-1)..MaxSeq}

Payloads == {"a"}

HasKey(f, k) == k \in DOMAIN f

\* RedisStream.string_to_entry_id; "raise" when the code raises (the
\* "<ms>" shape calls RedisStream(ms, seq), a TypeError)
string_to_entry_id(lookup, text, t) ==
    CASE text.form = "star" -> [raise |-> FALSE, id |-> EntryId(t, 0)]
      [] text.form = "int" -> [raise |-> TRUE, id |-> EntryId(0, 0)]
      [] text.form = "full" -> [raise |-> FALSE, id |-> EntryId(text.ms, text.seq)]
      [] OTHER ->
            IF ~HasKey(lookup, text.ms)
            THEN [raise |-> FALSE,
                  id |-> EntryId(text.ms, IF text.ms > 0 THEN 0 ELSE 1)]
            ELSE [raise |-> FALSE,
                  id |-> EntryId(text.ms, lookup[text.ms] + 1)]

\* a tail taken from the first entry instead of the last
most_recent_first(es) ==
    IF es # <<>> THEN es[1].id ELSE EntryId(0, 0)

\* RedisStream.most_recent_entry_id
most_recent_entry_id(es) ==
    IF es # <<>> THEN es[Len(es)].id ELSE EntryId(0, 0)

\* dict.__setitem__ on the insertion-ordered dict: a new key is appended, a
\* key already there keeps its place and takes the new value
DictSet(es, id, entry) ==
    IF \E i \in 1..Len(es) : es[i].id = id
    THEN [i \in 1..Len(es) |-> IF es[i].id = id THEN entry ELSE es[i]]
    ELSE Append(es, entry)

\* an xadd that does not compare the id with the tail
xadd_unordered(es, lookup, id, kv) ==
    IF id = EntryId(0, 0)
    THEN [ok |-> FALSE, entries |-> es, seq_lookup |-> lookup]
    ELSE [ok |-> TRUE,
          entries |-> DictSet(es, id, [id |-> id, kv |-> kv]),
          seq_lookup |-> (id.ms :> id.seq) @@ lookup]

\* an xadd that appends without recording the sequence number
xadd_keeps_lookup(es, lookup, id, kv) ==
    IF IdLe(id, most_recent_entry_id(es))
    THEN [ok |-> FALSE, entries |-> es, seq_lookup |-> lookup]
    ELSE [ok |-> TRUE,
          entries |-> DictSet(es, id, [id |-> id, kv |-> kv]),
          seq_lookup |-> IF HasKey(lookup, id.ms) THEN lookup
                         ELSE (id.ms :> id.seq) @@ lookup]

\* RedisStream.xadd
xadd(es, lookup, id, kv) ==
    IF IdLe(id, most_recent_entry_id(es))
    THEN [ok |-> FALSE, entries |-> es, seq_lookup |-> lookup]
    ELSE [ok |-> TRUE,
          entries |-> DictSet(es, id, [id |-> id, kv |-> kv]),
          seq_lookup |-> (id.ms :> id.seq) @@ lookup]

\* None, where an ID is optional
NoId == EntryId(-1, -1)

\* an xrange that leaves out the entry whose ID is the upper bound
xrange_open(es, min_id, max_id) ==
    LET lo == IF min_id = NoId THEN EntryId(0, 0) ELSE min_id
        hi == IF max_id = NoId
              THEN IdAdd(most_recent_entry_id(es), EntryId(0, 1))
              ELSE max_id
    IN SelectSeq(es, LAMBDA e : IdLe(lo, e.id) /\ IdLt(e.id, hi))

\* RedisStream.xrange; NoId stands for None
xrange(es, min_id, max_id) ==
    LET lo == IF min_id = NoId THEN EntryId(0, 0) ELSE min_id
        hi == IF max_id = NoId
              THEN IdAdd(most_recent_entry_id(es), EntryId(0, 1))
              ELSE max_id
    IN SelectSeq(es, LAMBDA e : IdLe(lo, e.id) /\ IdLe(e.id, hi))

\* RedisStream.xread
xread(es, start_id) == xrange(es, IdAdd(start_id, EntryId(0, 1)), NoId)

\* --------------------------------------------------------- database.py
Keys == {"k"}

\* A stored value (DataStruct): a str or a RedisStream; Absent is None
StrVal(s) == [t |-> "str", s |-> s]
StreamVal == [t |-> "stream", s |-> ""]
Absent == [t |-> "none", s |-> ""]

\* str(n) of an integer
Digit == <<"0", "1", "2", "3", "4", "5", "6", "7", "8", "9">>
RECURSIVE DecOf(_)
DecOf(n) == IF n < 10 THEN Digit[n + 1] ELSE DecOf(n \div 10) \o Digit[(n % 10) + 1]
StrOf(n) == IF n < 0 THEN "-" \o DecOf(0 - n) ELSE DecOf(n)

\* int(s): the texts of the integers of NumRange parse, any other text raises
NumRange == (-9)..199
NumTable == [n \in NumRange |-> StrOf(n)]
IsInt(s) == \E n \in NumRange : NumTable[n] = s
IntOf(s) == CHOOSE n \in NumRange : NumTable[n] = s

\* Optional[float] expire_time
NoTtl == [some |-> FALSE, ms |-> 0]
Ttl(ms) == [some |-> TRUE, ms |-> ms]

Item(value, expire_timestamp) ==
    [value |-> value, expire_timestamp |-> expire_timestamp]

DropKey(db, key) == [k \in DOMAIN db \ {key} |-> db[k]]

\* a get that lets an entry live through its expire_timestamp
db_get_late(db, key, t) ==
    IF ~HasKey(db, key) THEN [db |-> db, ret |-> Absent]
    ELSE IF t > db[key].expire_timestamp
         THEN [db |-> DropKey(db, key), ret |-> Absent]
         ELSE [db |-> db, ret |-> db[key].value]

\* RedisDatabase.get at time t
db_get(db, key, t) ==
    IF ~HasKey(db, key) THEN [db |-> db, ret |-> Absent]
    ELSE IF t >= db[key].expire_timestamp
         THEN [db |-> DropKey(db, key), ret |-> Absent]
         ELSE [db |-> db, ret |-> db[key].value]

\* RedisDatabase.set at time t (expire_timestamp is given by the loader only)
db_set(db, key, value, expire_time, t) ==
    LET expire_timestamp ==
            IF ~expire_time.some THEN Inf ELSE t + expire_time.ms
    IN (key :> Item(value, expire_timestamp)) @@ db

\* RedisDatabase.increment at time t; ret is the new integer, none is None
db_increment(db, key, t) ==
    IF ~HasKey(db, key)
    THEN [db |-> db_set(db, key, StrVal("1"), NoTtl, t), none |-> FALSE, ret |-> 1]
    ELSE IF db[key].value.t = "str" /\ IsInt(db[key].value.s)
         THEN LET n == IntOf(db[key].value.s) + 1
              IN [db |-> [db EXCEPT ![key].value = StrVal(StrOf(n))],
                  none |-> FALSE, ret |-> n]
         ELSE [db |-> db, none |-> TRUE, ret |-> 0]

\* RedisDatabase.keys
db_keys(db) == DOMAIN db

\* -------------------------------------------------------------- resp.py
\* A response: a RESP value, by kind; NoneResp is Python's None
Resp(k, str, a) == [k |-> k, s |-> str, a |-> a]
NoneResp == Resp("None", "", <<>>)
RespSimpleString(str) == Resp("simple", str, <<>>)
RespSimpleError(str) == Resp("error", str, <<>>)
RespInteger(n) == Resp("int", StrOf(n), <<>>)
RespBulkString(str) == Resp("bulk", str, <<>>)
RespNullBulk == Resp("nullbulk", "", <<>>)
RespArray(a) == Resp("array", "", a)

RECURSIVE SumSeq(_)
SumSeq(q) == IF q = <<>> THEN 0 ELSE Head(q) + SumSeq(Tail(q))

\* len(RespBulkString(arg).serialize()): "$<len>\r\n<arg>\r\n"
BulkLen(arg) == 1 + Len(StrOf(Len(arg))) + 2 + Len(arg) + 2

\* len(RedisCommand.serialize()): "*<argc>\r\n" and the arguments as bulk strings
SerLen(argv) ==
    1 + Len(StrOf(Len(argv))) + 2 + SumSeq([i \in 1..Len(argv) |-> BulkLen(argv[i])])

\* serialize() of a response raises on an array that holds None
SerializeRaises(r) == r.k = "array" /\ \E i \in 1..Len(r.a) : r.a[i] = NoneResp

\* ----------------------------------------------- the written frames
\* What one write() put on a connection's writer: a response, a command
\* (fanned out or sent in the handshake) or the snapshot. eff and src say
\* which execution of a SET (0: none) on which connection caused it.
Frame(kind, argv, resp, eff, src) ==
    [kind |-> kind, argv |-> argv, resp |-> resp, eff |-> eff, src |-> src]
RespFrame(r, c) == Frame("resp", <<>>, r, 0, c)
CmdFrame(argv, eff, c) == Frame("cmd", argv, NoneResp, eff, c)
RdbFrame(c) == Frame("rdb", <<>>, NoneResp, 0, c)

\* ---------------------------------------------------- the server state
Conns == 1..MaxConns

NoTx == [active |-> FALSE, queue |-> <<>>]

NoTask ==
    [cur |-> <<>>, resp |-> NoneResp, eff |-> 0, cont |-> "",
     fpos |-> 0, fsize |-> 0, fdata |-> <<>>,
     inexec |-> FALSE, top |-> <<>>, exq |-> <<>>, exres |-> <<>>,
     wpo |-> 0, wreq |-> 0, wdeadline |-> 0]

NoLast ==
    [argv |-> <<>>, active |-> FALSE, qlen |-> 0, po |-> 0, nrep |-> 0,
     done |-> FALSE, reply |-> NoneResp]

NoEv == [kind |-> "init", c |-> 0, argv |-> <<>>]

State ==
    [replicas |-> replicas, master_repl_offset |-> master_repl_offset,
     pc |-> pc, task |-> task, transaction |-> transaction,
     propogate_offset |-> propogate_offset, ack_offset |-> ack_offset,
     out |-> out, effects |-> effects, last |-> last, database |-> database]

SetState(s) ==
    /\ replicas' = s.replicas
    /\ master_repl_offset' = s.master_repl_offset
    /\ pc' = s.pc
    /\ task' = s.task
    /\ transaction' = s.transaction
    /\ propogate_offset' = s.propogate_offset
    /\ ack_offset' = s.ack_offset
    /\ out' = s.out
    /\ effects' = s.effects
    /\ last' = s.last
    /\ database' = s.database

Min(S) == CHOOSE x \in S : \A y \in S : x <= y

\* writer.write(data) on connection r
Write(s, r, frame) == [s EXCEPT !.out[r] = Append(@, frame)]

\* --------------------------------------------------------- server.py
\* RedisServer.get_connection_type
get_connection_type(reps, c) ==
    IF c = master THEN "MASTER"
    ELSE IF c \in reps THEN "REPLICA" ELSE "CLIENT"

\* a registration that replaces the replica set instead of adding to it
mark_as_replica_only(reps, c) == {c}

\* RedisServer.mark_as_replica
mark_as_replica(reps, c) == reps \cup {c}

\* RedisServer.get_num_acked_replicas
get_num_acked_replicas(reps, acks, target_offset) ==
    Cardinality({r \in reps : acks[r] >= target_offset})

\* ------------------------------------------------------ transaction.py
\* an activate that starts the transaction afresh when it is already active
activate_resets(tx) ==
    [ok |-> ~tx.active, tx |-> [active |-> TRUE, queue |-> <<>>]]

\* RedisTransaction.activate / discard / queue: ok is the returned boolean
activate(tx) ==
    IF tx.active THEN [ok |-> FALSE, tx |-> tx]
    ELSE [ok |-> TRUE, tx |-> [active |-> TRUE, queue |-> <<>>]]

discard(tx) ==
    IF ~tx.active THEN [ok |-> FALSE, tx |-> tx]
    ELSE [ok |-> TRUE, tx |-> NoTx]

queue(tx, argv) == [tx EXCEPT !.queue = Append(@, argv)]

\* an exec that leaves the transaction active while the queued commands run
exec_keeps_queue(tx) == tx

\* RedisTransaction.exec: _command_queue is set to None before the first
\* execute()
exec_takes_queue(tx) == NoTx

\* --------------------------------------------------------- commands.py
ControlCommands == {"MULTI", "EXEC", "DISCARD"}
KnownCommands ==
    {"DISCARD", "EXEC", "GET", "INCR", "MULTI", "PING", "PSYNC", "REPLCONF",
     "SET", "WAIT"}

\* the commands that write to the store
Mutators == {"SET", "INCR"}

\* TypeCommand._execute at time t: the type it names
type_str(db, key, t) ==
    LET value == db_get(db, key, t).ret
    IN IF value = Absent THEN "none"
       ELSE IF value.t = "str" THEN "string" ELSE "stream"

\* RedisCommand._should_be_queued and its overrides
should_be_queued(tx, argv) ==
    IF argv[1] \in ControlCommands THEN FALSE ELSE tx.active

\* RedisCommand._should_be_propogated and its override in SetCommand
should_be_propogated(argv) == argv[1] = "SET"

\* the default of _has_response, without the override of ReplconfCommand
has_response_default(type, argv) == type # "MASTER"

\* RedisCommand._has_response and its override in ReplconfCommand
has_response(type, argv) ==
    IF argv[1] = "REPLCONF" THEN argv[2] # "ACK" ELSE type # "MASTER"

\* an offset accounting that counts the commands of every connection
counts_every_connection(type) == TRUE

\* RedisCommand.execute: whose commands advance master_repl_offset
counts_repl_offset(type) == type = "MASTER"

\* ReplconfCommand._execute, case "ACK"
ack_add(old, n) == old + n

\* a WAIT that broadcasts REPLCONF GETACK * whatever the propagate_offset
wait_getack_always(po) == po >= 0

\* WaitCommand._execute: whether REPLCONF GETACK * is broadcast first
wait_should_getack(po) == po > 0

GetackArgv == <<"REPLCONF", "GETACK", "*">>
AckReply(n) ==
    RespArray(<<RespBulkString("REPLCONF"), RespBulkString("ACK"),
                RespBulkString(StrOf(n))>>)
WrongType ==
    RespSimpleError("WRONGTYPE Operation against a key holding the wrong kind of value")
Fullresync ==
    RespSimpleString("+FULLRESYNC 8371b4fb1155b71f4a04d3e1bc3e18c4a990aeeb 0")

\* An exception leaves the connection's task: process() never returns, so
\* _process_connection neither discards the connection nor closes it
Crash(s, c) == [s EXCEPT !.pc[c] = "crashed"]

RECURSIVE Begin(_, _, _), AfterBody(_, _, _, _), Complete(_, _, _, _)

\* RedisConnection.process, after execute() returned ret: the response is
\* written, and after a PSYNC the snapshot follows the next drain
TopDone(s, c, argv, ret) ==
    IF ret # NoneResp /\ SerializeRaises(ret) THEN Crash(s, c)
    ELSE LET s1 == IF ret = NoneResp THEN s ELSE Write(s, c, RespFrame(ret, c))
             s2 == [s1 EXCEPT !.last[c].done = TRUE, !.last[c].reply = ret,
                              !.task[c] = NoTask]
         IN IF argv[1] # "PSYNC" THEN [s2 EXCEPT !.pc[c] = "idle"]
            ELSE IF ret = NoneResp
                 THEN [Write(s2, c, RdbFrame(c)) EXCEPT !.pc[c] = "idle"]
                 ELSE [s2 EXCEPT !.pc[c] = "rdb"]

\* WaitCommand._execute, the polling loop: one evaluation of the count and
\* of the loop's tests, up to the sleep(0) or the return
WaitPoll(s, c, argv, po, required, deadline) ==
    LET n == get_num_acked_replicas(s.replicas, s.ack_offset, po)
    IN IF now < deadline /\ n < required
       THEN [s EXCEPT !.pc[c] = "wait", !.task[c].cur = argv, !.task[c].wpo = po,
                      !.task[c].wreq = required, !.task[c].wdeadline = deadline]
       ELSE Complete(s, c, argv, RespInteger(n))

\* What follows send_command_to_replicas: in execute() the propogate_offset
\* and the return, in WAIT the polling loop
FanDone(s, c, argv, r, cont, po) ==
    IF cont = "prop"
    THEN Complete([s EXCEPT !.propogate_offset[c] = @ + SerLen(argv)], c, argv, r)
    ELSE WaitPoll(s, c, argv, po, IntOf(argv[2]), now + IntOf(argv[3]))

\* RedisConnection.send: write() buffers the data whatever the state of the
\* transport, and drain() raises ConnectionResetError once the transport of
\* connection r was lost
drain_raises(r) == r \in broken

\* RedisServer.send_command_to_replicas up to its first drain. The set is
\* iterated in the order of its slots, here the order of the connections.
StartFanout(s, c, argv, r, data, cont, po) ==
    IF s.replicas = {} THEN FanDone(s, c, argv, r, cont, po)
    ELSE LET first == Min(s.replicas)
             s1 == Write(s, first, CmdFrame(data, s.task[c].eff, c))
         IN IF drain_raises(first) THEN Crash(s1, c)
            ELSE [s1 EXCEPT !.pc[c] = "fanout", !.task[c].cur = argv,
                            !.task[c].resp = r, !.task[c].cont = cont,
                            !.task[c].fdata = data, !.task[c].fpos = first,
                            !.task[c].fsize = Cardinality(s.replicas),
                            !.task[c].wpo = po]

\* RedisServer.send_command_to_replicas from one drain to the next: the set
\* iterator raises RuntimeError when the set changed size
ResumeFanout(s, c) ==
    LET t == s.task[c]
        rest == {r \in s.replicas : r > t.fpos}
    IN IF drain_raises(t.fpos) THEN Crash(s, c)
       ELSE IF Cardinality(s.replicas) # t.fsize THEN Crash(s, c)
       ELSE IF rest = {} THEN FanDone(s, c, t.cur, t.resp, t.cont, t.wpo)
       ELSE LET s1 == Write(s, Min(rest), CmdFrame(t.fdata, t.eff, c))
            IN IF drain_raises(Min(rest)) THEN Crash(s1, c)
               ELSE [s1 EXCEPT !.task[c].fpos = Min(rest)]

\* RedisCommand.execute after the command was queued or executed
AfterBody(s, c, argv, r) ==
    LET type == get_connection_type(s.replicas, c)
        s1 == IF counts_repl_offset(type)
              THEN [s EXCEPT !.master_repl_offset = @ + SerLen(argv)]
              ELSE s
    IN IF should_be_propogated(argv)
       THEN StartFanout(s1, c, argv, r, argv, "prop", 0)
       ELSE Complete(s1, c, argv, r)

\* The _execute of each command
Body(s, c, argv) ==
    CASE argv[1] = "PING" -> AfterBody(s, c, argv, RespSimpleString("PONG"))
      [] argv[1] = "GET" ->
            LET g == db_get(s.database, argv[2], now)
            IN AfterBody([s EXCEPT !.database = g.db], c, argv,
                         IF g.ret = Absent THEN RespNullBulk
                         ELSE IF g.ret.t = "str" THEN RespBulkString(g.ret.s)
                         ELSE WrongType)
      [] argv[1] = "SET" ->
            LET expire_time == IF Len(argv) = 3 THEN NoTtl
                               ELSE Ttl(IntOf(argv[Len(argv)]))
            IN AfterBody([s EXCEPT !.database =
                                       db_set(@, argv[2], StrVal(argv[3]), expire_time, now),
                                   !.effects = Append(@, s.replicas),
                                   !.task[c].eff = Len(s.effects) + 1],
                         c, argv, RespSimpleString("OK"))
      [] argv[1] = "INCR" ->
            LET i == db_increment(s.database, argv[2], now)
            IN AfterBody([s EXCEPT !.database = i.db], c, argv,
                         IF i.none
                         THEN RespSimpleError("ERR value is not an integer or out of range")
                         ELSE RespInteger(i.ret))
      [] argv[1] = "MULTI" ->
            LET a == activate(s.transaction[c])
            IN AfterBody([s EXCEPT !.transaction[c] = a.tx], c, argv,
                         IF a.ok THEN RespSimpleString("OK")
                         ELSE RespSimpleError("ERR MULTI calls can not be nested"))
      [] argv[1] = "DISCARD" ->
            LET d == discard(s.transaction[c])
            IN AfterBody([s EXCEPT !.transaction[c] = d.tx], c, argv,
                         IF d.ok THEN RespSimpleString("OK")
                         ELSE RespSimpleError("ERR DISCARD without MULTI"))
      [] argv[1] = "EXEC" ->
            \* RedisTransaction.exec: the queue is taken and set to None first
            LET commands == s.transaction[c].queue
                s1 == [s EXCEPT !.transaction[c] = exec_takes_queue(@)]
            IN IF ~s.transaction[c].active
               THEN AfterBody(s, c, argv, RespSimpleError("ERR EXEC without MULTI"))
               ELSE IF commands = <<>> THEN AfterBody(s1, c, argv, RespArray(<<>>))
               ELSE Begin([s1 EXCEPT !.task[c].inexec = TRUE, !.task[c].top = argv,
                                     !.task[c].exq = Tail(commands),
                                     !.task[c].exres = <<>>],
                          c, Head(commands))
      [] argv[1] = "PSYNC" ->
            AfterBody([s EXCEPT !.replicas = mark_as_replica(@, c)], c, argv, Fullresync)
      [] argv[1] = "REPLCONF" ->
            IF argv[2] = "GETACK"
            THEN AfterBody(s, c, argv, AckReply(s.master_repl_offset))
            ELSE IF argv[2] = "ACK"
            THEN AfterBody([s EXCEPT !.ack_offset[c] = ack_add(@, IntOf(argv[3]))],
                           c, argv, RespSimpleString("OK"))
            ELSE AfterBody(s, c, argv, RespSimpleString("OK"))
      [] argv[1] = "WAIT" ->
            LET po == s.propogate_offset[c]
            IN IF wait_should_getack(po)
               THEN StartFanout([s EXCEPT !.task[c].eff = 0], c, argv, NoneResp,
                                GetackArgv, "wait", po)
               ELSE WaitPoll(s, c, argv, po, IntOf(argv[2]), now + IntOf(argv[3]))

\* RedisCommand.execute: queue the command or execute it
Begin(s, c, argv) ==
    IF should_be_queued(s.transaction[c], argv)
    THEN AfterBody([s EXCEPT !.transaction[c] = queue(@, argv), !.task[c].eff = 0],
                   c, argv, RespSimpleString("QUEUED"))
    ELSE Body(s, c, argv)

\* RedisCommand.execute returns: to RedisTransaction.exec, which collects the
\* response and executes the next queued command, or to process()
Complete(s, c, argv, r) ==
    LET type == get_connection_type(s.replicas, c)
        ret == IF has_response(type, argv) THEN r ELSE NoneResp
        t == s.task[c]
        responses == Append(t.exres, ret)
    IN IF ~t.inexec THEN TopDone(s, c, argv, ret)
       ELSE IF t.exq = <<>>
            THEN AfterBody([s EXCEPT !.task[c].inexec = FALSE, !.task[c].exres = <<>>],
                           c, t.top, RespArray(responses))
            ELSE Begin([s EXCEPT !.task[c].exq = Tail(t.exq),
                                 !.task[c].exres = responses],
                       c, Head(t.exq))

\* ------------------------------------------------------------- actions
\* time passes
Tick ==
    /\ now < MaxTime
    /\ now' = now + 1
    /\ ev' = [kind |-> "tick", c |-> 0, argv |-> <<>>]
    /\ UNCHANGED <<streamVars, storeVars, database, master, replicas,
                   master_repl_offset, pc, task, transaction, propogate_offset,
                   ack_offset, out, broken, xr, acked, effects, rx, last,
                   ncmd>>

\* XaddCommand._execute on the stream of a key: the ID is parsed, then xadd
XaddStep(text, kv) ==
    LET p == string_to_entry_id(seq_lookup, text, now)
        r == xadd(entries, seq_lookup, p.id, kv)
    IN /\ IF p.raise
          THEN /\ UNCHANGED <<entries, seq_lookup>>
               /\ sop' = [kind |-> "raise", text |-> text, kv |-> kv,
                          id |-> p.id, ok |-> FALSE]
          ELSE /\ r.ok => Len(entries) < MaxEntries
               /\ entries' = r.entries
               /\ seq_lookup' = r.seq_lookup
               /\ sop' = [kind |-> "xadd", text |-> text, kv |-> kv,
                          id |-> p.id, ok |-> r.ok]
       /\ ev' = [kind |-> "xadd", c |-> 0, argv |-> <<>>]
       /\ UNCHANGED <<now, storeVars, database, srvVars>>

\* RedisStream.xrange(min_id, max_id) on the stream of a key
XrangeStep(min_id, max_id) ==
    /\ sop' = [kind |-> "xrange", min |-> min_id, max |-> max_id,
               ret |-> xrange(entries, min_id, max_id)]
    /\ ev' = [kind |-> "xrange", c |-> 0, argv |-> <<>>]
    /\ UNCHANGED <<now, entries, seq_lookup, storeVars, database, srvVars>>

\* RedisStream.xread(start_id) on the stream of a key
XreadStep(start_id) ==
    /\ sop' = [kind |-> "xread", min |-> start_id, max |-> NoId,
               ret |-> xread(entries, start_id)]
    /\ ev' = [kind |-> "xread", c |-> 0, argv |-> <<>>]
    /\ UNCHANGED <<now, entries, seq_lookup, storeVars, database, srvVars>>

NoSop == [kind |-> "none", text |-> IdText("star", 0, 0), kv |-> "a",
          id |-> EntryId(0, 0), ok |-> FALSE]

\* RedisDatabase.set(key, value) and set(key, value, expire_time=...)
SetStep(key, value, expire_time) ==
    /\ database' = db_set(database, key, StrVal(value), expire_time, now)
    /\ hist' = [hist EXCEPT ![key] = [set |-> TRUE, t0 |-> now,
                                      ttl |-> expire_time, v |-> StrVal(value)]]
    /\ dop' = [kind |-> "set", key |-> key, t |-> now, ret |-> Absent]
    /\ ev' = [kind |-> "set", c |-> 0, argv |-> <<>>]
    /\ UNCHANGED <<now, streamVars, srvVars>>

\* RedisDatabase.get(key)
GetStep(key) ==
    LET g == db_get(database, key, now)
    IN /\ database' = g.db
       /\ dop' = [kind |-> "get", key |-> key, t |-> now, ret |-> g.ret]
       /\ ev' = [kind |-> "get", c |-> 0, argv |-> <<>>]
       /\ UNCHANGED <<now, hist, streamVars, srvVars>>

NoHist == [set |-> FALSE, t0 |-> 0, ttl |-> NoTtl, v |-> Absent]

\* RedisDatabase.increment(key)
IncrStep(key) ==
    LET i == db_increment(database, key, now)
    IN /\ ~i.none => i.ret <= MaxInt
       /\ database' = i.db
       /\ hist' = [hist EXCEPT ![key] = NoHist]
       /\ dop' = [kind |-> "incr", key |-> key, t |-> now,
                  ret |-> IF i.none THEN Absent ELSE StrVal(StrOf(i.ret))]
       /\ ev' = [kind |-> "incr", c |-> 0, argv |-> <<>>]
       /\ UNCHANGED <<now, streamVars, srvVars>>

NoDop == [kind |-> "none", key |-> "k", t |-> 0, ret |-> Absent]

\* a loop that reads the next command while the last one is suspended
reads_while_suspended(p) == p \in {"idle", "fanout", "wait"}

\* RedisConnection.process: _recv_command is awaited at the top of the loop
\* only, after execute() returned and the response was sent
reads_next(p) == p = "idle"

\* one command arrives on connection c and runs to its first suspension
RecvCmd(c, argv) ==
    /\ reads_next(pc[c])
    /\ LET s0 == [State EXCEPT
                    !.last[c] = [argv |-> argv,
                                 active |-> transaction[c].active,
                                 qlen |-> Len(transaction[c].queue),
                                 po |-> propogate_offset[c],
                                 nrep |-> Cardinality(replicas),
                                 done |-> FALSE, reply |-> NoneResp],
                    !.task[c] = NoTask]
       IN SetState(IF argv[1] \in KnownCommands THEN Begin(s0, c, argv)
                   ELSE Crash(s0, c))
    /\ ncmd' = ncmd + 1
    /\ rx' = [rx EXCEPT ![c] = [len |-> @.len + SerLen(argv),
                                mut |-> @.mut /\ argv[1] \in Mutators]]
    /\ ev' = [kind |-> "recv", c |-> c, argv |-> argv]
    /\ UNCHANGED <<now, master, streamVars, storeVars, broken, xr>>

\* a command that a client, or a peer this model does not follow, sends
Recv(c, argv) == RecvCmd(c, argv) /\ UNCHANGED acked

\* The replica at the other end of connection r, running this program: after
\* the FULLRESYNC line and the snapshot it executes the commands written to
\* it in order, each adding its serialized length to the replica's
\* master_repl_offset, and answers each REPLCONF GETACK * with REPLCONF ACK
\* <master_repl_offset>, the offset before that GETACK is counted
BytesOf(f) == IF f.kind = "cmd" THEN SerLen(f.argv) ELSE 0
BytesWritten(q) == SumSeq([j \in 1..Len(q) |-> BytesOf(q[j])])
GetacksIn(q) == {i \in 1..Len(q) : q[i].kind = "cmd" /\ q[i].argv = GetackArgv}
NthGetack(q, n) ==
    CHOOSE i \in GetacksIn(q) : Cardinality({j \in GetacksIn(q) : j <= i}) = n
PeerSynced(q) == Len(q) >= 2 /\ q[1].kind = "resp" /\ q[2].kind = "rdb"

\* the next REPLCONF ACK of the replica at the other end of r arrives
RecvAck(r) ==
    /\ r \in replicas /\ PeerSynced(out[r])
    /\ Cardinality(GetacksIn(out[r])) > acked[r]
    /\ LET i == NthGetack(out[r], acked[r] + 1)
           n == BytesWritten(SubSeq(out[r], 1, i - 1))
       IN RecvCmd(r, <<"REPLCONF", "ACK", StrOf(n)>>)
    /\ acked' = [acked EXCEPT ![r] = @ + 1]

\* end of stream on connection c: process() returns, and
\* _process_connection discards the connection from the replicas and closes it
Eof(c) ==
    /\ pc[c] = "idle"
    /\ pc' = [pc EXCEPT ![c] = "closed"]
    /\ replicas' = replicas \ {c}
    /\ ncmd' = ncmd + 1
    /\ ev' = [kind |-> "eof", c |-> c, argv |-> <<>>]
    /\ UNCHANGED <<now, master, streamVars, storeVars, database,
                   master_repl_offset, task, transaction, propogate_offset,
                   ack_offset, out, broken, xr, acked, effects, rx, last>>

\* The transport of connection c is lost with an error (the peer resets the
\* connection, or a write to it fails): the read its task is waiting in
\* raises ConnectionResetError, which _recv_command does not catch, so the
\* exception leaves process() and _process_connection
Reset(c) ==
    /\ pc[c] = "idle"
    /\ pc' = [pc EXCEPT ![c] = "crashed"]
    /\ broken' = broken \cup {c}
    /\ ncmd' = ncmd + 1
    /\ ev' = [kind |-> "reset", c |-> c, argv |-> <<>>]
    /\ UNCHANGED <<now, master, streamVars, storeVars, database, replicas,
                   master_repl_offset, task, transaction, propogate_offset,
                   ack_offset, out, xr, acked, effects, rx, last>>

\* a drain() inside send_command_to_replicas returns
Drain(c) ==
    /\ pc[c] = "fanout"
    /\ SetState(ResumeFanout(State, c))
    /\ ev' = [kind |-> "drain", c |-> c, argv |-> <<>>]
    /\ UNCHANGED <<now, master, streamVars, storeVars, broken, xr, acked, rx,
                   ncmd>>

\* the drain() after the reply to PSYNC returns: the snapshot is sent
SendRdb(c) ==
    /\ pc[c] = "rdb"
    /\ SetState([Write(State, c, RdbFrame(c)) EXCEPT !.pc[c] = "idle"])
    /\ ev' = [kind |-> "rdb", c |-> c, argv |-> <<>>]
    /\ UNCHANGED <<now, master, streamVars, storeVars, broken, xr, acked, rx,
                   ncmd>>

\* the sleep(0) of WAIT returns
Poll(c) ==
    /\ pc[c] = "wait"
    /\ LET t == task[c]
       IN SetState(WaitPoll(State, c, t.cur, t.wpo, t.wreq, t.wdeadline))
    /\ ev' = [kind |-> "poll", c |-> c, argv |-> <<>>]
    /\ UNCHANGED <<now, master, streamVars, storeVars, broken, xr, acked, rx,
                   ncmd>>

\* a handshake that asks for the synchronisation before it names its
\* capabilities
HandshakeSendsPsyncFirst ==
    <<<<"PING">>, <<"REPLCONF", "listening-port", "6380">>,
      <<"PSYNC", "?", "-1">>, <<"REPLCONF", "capa", "psync2">>>>

\* RedisConnection._handshake: what is sent at each step, each after the
\* line read at the step before; then the FULLRESYNC line and the snapshot
HandshakeSends ==
    <<<<"PING">>, <<"REPLCONF", "listening-port", "6380">>,
      <<"REPLCONF", "capa", "psync2">>, <<"PSYNC", "?", "-1">>>>
HandshakePc == <<"start", "hs1", "hs2", "hs3", "hs4", "hs5", "idle">>
Handshake(c) ==
    /\ \E i \in 1..6 :
          /\ pc[c] = HandshakePc[i]
          /\ pc' = [pc EXCEPT ![c] = HandshakePc[i + 1]]
          /\ out' = IF i <= 4
                    THEN [out EXCEPT ![c] = Append(@, CmdFrame(HandshakeSends[i], 0, c))]
                    ELSE out
    /\ ev' = [kind |-> "handshake", c |-> c, argv |-> <<>>]
    /\ UNCHANGED <<now, master, streamVars, storeVars, database, replicas,
                   master_repl_offset, task, transaction, propogate_offset,
                   ack_offset, broken, xr, acked, effects, rx, last, ncmd>>

\* ------------------------------------------------- XADD and XREAD
\* the key of the stream, and the field of its entries
StreamKey == "s"
StreamField == "f"

\* the text of an ID as a client sends it; "$" is the shape "dollar"
IdString(text) ==
    CASE text.form = "star" -> "*"
      [] text.form = "dollar" -> "$"
      [] text.form = "int" -> StrOf(text.ms)
      [] text.form = "auto" -> StrOf(text.ms) \o "-*"
      [] OTHER -> StrOf(text.ms) \o "-" \o StrOf(text.seq)

\* RedisStreamEntryId.__str__
IdStr(id) == StrOf(id.ms) \o "-" \o StrOf(id.seq)

\* RedisStreamEntry.serialize, as the value it serializes
EntryResp(e) ==
    RespArray(<<RespBulkString(IdStr(e.id)),
                RespArray(<<RespBulkString(StreamField), RespBulkString(e.kv)>>)>>)

\* the reply of XREAD for the one stream it names
XreadArray(found) ==
    RespArray(<<RespArray(<<RespBulkString(StreamKey),
                            RespArray([i \in 1..Len(found) |-> EntryResp(found[i])])>>)>>)

NoXr == [start |-> NoId, deadline |-> 0]

LastOf(c, argv, done, reply) ==
    [argv |-> argv, active |-> transaction[c].active,
     qlen |-> Len(transaction[c].queue), po |-> propogate_offset[c],
     nrep |-> Cardinality(replicas), done |-> done, reply |-> reply]

\* the execution of a command that is not queued leaves by an exception
Raises(c, argv) ==
    /\ pc' = [pc EXCEPT ![c] = "crashed"]
    /\ last' = [last EXCEPT ![c] = LastOf(c, argv, FALSE, NoneResp)]
    /\ out' = out

\* execute() returns ret on a client connection and process() sends it
Returns(c, argv, ret) ==
    /\ pc' = [pc EXCEPT ![c] = "idle"]
    /\ last' = [last EXCEPT ![c] = LastOf(c, argv, TRUE, ret)]
    /\ out' = [out EXCEPT ![c] = Append(@, RespFrame(ret, c))]

XaddArgv(text, kv) == <<"XADD", StreamKey, IdString(text), StreamField, kv>>

\* XADD arrives on client connection c, outside a transaction:
\* XaddCommand._execute creates the stream when the key is absent
RecvXadd(c, text, kv) ==
    LET argv == XaddArgv(text, kv)
        g == db_get(database, StreamKey, now)
        fresh == g.ret = Absent
        db1 == IF fresh THEN db_set(g.db, StreamKey, StreamVal, NoTtl, now) ELSE g.db
        es == IF fresh THEN <<>> ELSE entries
        lookup == IF fresh THEN <<>> ELSE seq_lookup
        p == string_to_entry_id(lookup, text, now)
        r == xadd(es, lookup, p.id, kv)
    IN /\ reads_next(pc[c])
       /\ get_connection_type(replicas, c) = "CLIENT" /\ ~transaction[c].active
       /\ database' = db1
       /\ IF g.ret # Absent /\ g.ret.t # "stream"
          THEN /\ UNCHANGED <<entries, seq_lookup>>
               /\ Returns(c, argv, WrongType)
          ELSE IF p.raise
          THEN /\ entries' = es /\ seq_lookup' = lookup
               /\ Raises(c, argv)
          ELSE /\ r.ok => Len(es) < MaxEntries
               /\ entries' = r.entries
               /\ seq_lookup' = r.seq_lookup
               /\ Returns(c, argv,
                     IF r.ok THEN RespBulkString(IdStr(p.id))
                     ELSE IF p.id = EntryId(0, 0)
                     THEN RespSimpleError("ERR The ID specified in XADD must be greater than 0-0")
                     ELSE RespSimpleError("ERR The ID specified in XADD is equal or smaller than the target stream top item"))
       /\ ncmd' = ncmd + 1
       /\ rx' = [rx EXCEPT ![c] = [len |-> @.len + SerLen(argv), mut |-> FALSE]]
       /\ ev' = [kind |-> "recv", c |-> c, argv |-> argv]
       /\ UNCHANGED <<now, sop, storeVars, master, replicas, master_repl_offset,
                      task, transaction, propogate_offset, ack_offset, broken,
                      xr, acked, effects>>

\* XreadCommand._execute, one pass of its loop over the stream it holds: up
\* to the return or to the sleep(0)
XreadPass(c, argv, start, deadline) ==
    LET found == xread(entries, start)
    IN IF found # <<>> THEN Returns(c, argv, XreadArray(found))
       ELSE IF now >= deadline THEN Returns(c, argv, RespNullBulk)
       ELSE /\ pc' = [pc EXCEPT ![c] = "xread"]
            /\ last' = [last EXCEPT ![c] = LastOf(c, argv, FALSE, NoneResp)]
            /\ out' = out

\* block is -1 for an XREAD without "block"
XreadArgv(block, text) ==
    IF block < 0 THEN <<"XREAD", "streams", StreamKey, IdString(text)>>
    ELSE <<"XREAD", "block", StrOf(block), "streams", StreamKey, IdString(text)>>

\* XREAD arrives on client connection c, outside a transaction:
\* XreadCommand._execute up to the end of the first pass of its loop. The
\* value of the key is taken as it is: on None, and on a str, the call of
\* most_recent_entry_id or string_to_entry_id raises AttributeError
RecvXread(c, block, text) ==
    LET argv == XreadArgv(block, text)
        g == db_get(database, StreamKey, now)
        p == string_to_entry_id(seq_lookup, text, now)
        start == IF text.form = "dollar" THEN most_recent_entry_id(entries) ELSE p.id
        deadline == IF block < 0 THEN 0 ELSE IF block = 0 THEN Inf ELSE now + block
    IN /\ reads_next(pc[c])
       /\ get_connection_type(replicas, c) = "CLIENT" /\ ~transaction[c].active
       /\ database' = g.db
       /\ IF g.ret = Absent \/ g.ret.t # "stream" \/ (text.form # "dollar" /\ p.raise)
          THEN Raises(c, argv) /\ xr' = xr
          ELSE /\ xr' = [xr EXCEPT ![c] = [start |-> start, deadline |-> deadline]]
               /\ XreadPass(c, argv, start, deadline)
       /\ ncmd' = ncmd + 1
       /\ rx' = [rx EXCEPT ![c] = [len |-> @.len + SerLen(argv), mut |-> FALSE]]
       /\ ev' = [kind |-> "recv", c |-> c, argv |-> argv]
       /\ UNCHANGED <<now, streamVars, storeVars, master, replicas,
                      master_repl_offset, task, transaction, propogate_offset,
                      ack_offset, broken, acked, effects>>

\* the sleep(0) of XREAD returns
PollXread(c) ==
    /\ pc[c] = "xread"
    /\ XreadPass(c, last[c].argv, xr[c].start, xr[c].deadline)
    /\ ev' = [kind |-> "xpoll", c |-> c, argv |-> last[c].argv]
    /\ UNCHANGED <<now, streamVars, storeVars, database, master, replicas,
                   master_repl_offset, task, transaction, propogate_offset,
                   ack_offset, broken, xr, acked, effects, rx, ncmd>>

\* ------------------------------------------------------ specifications
InitClock == now = 0
InitStream == entries = <<>> /\ seq_lookup = <<>> /\ sop = NoSop
InitStore == database = <<>> /\ hist = [k \in Keys |-> NoHist] /\ dop = NoDop
InitSrv(upstream) ==
    /\ master = upstream
    /\ replicas = {}
    /\ master_repl_offset = 0
    /\ pc = [c \in Conns |-> IF c = upstream THEN "start" ELSE "idle"]
    /\ task = [c \in Conns |-> NoTask]
    /\ transaction = [c \in Conns |-> NoTx]
    /\ propogate_offset = [c \in Conns |-> 0]
    /\ ack_offset = [c \in Conns |-> 0]
    /\ out = [c \in Conns |-> <<>>]
    /\ broken = {}
    /\ xr = [c \in Conns |-> NoXr]
    /\ acked = [c \in Conns |-> 0]
    /\ effects = <<>>
    /\ rx = [c \in Conns |-> [len |-> 0, mut |-> TRUE]]
    /\ last = [c \in Conns |-> NoLast]
    /\ ev = NoEv
    /\ ncmd = 0

\* a primary: no upstream connection, the client connections accepted
Init == InitClock /\ InitStream /\ InitStore /\ InitSrv(0)

\* a replica: connection 1 is the upstream connection, about to handshake
InitReplica == InitClock /\ InitStream /\ InitStore /\ InitSrv(1)

\* the stream of one key, under XADD
NextStream ==
    \/ \E text \in IdTexts, kv \in Payloads : XaddStep(text, kv)
    \/ Tick
SpecStream == Init /\ [][NextStream]_vars

\* the stream of one key, under XADD, and the ranges read from it
RangeIds == {EntryId(ms, seq) : ms \in 0..MaxMs, seq \in 0..MaxSeq}
RangeTexts ==
    {IdText("auto", ms, 0) : ms \in 0..MaxMs}
    \cup {IdText("full", ms, seq) : ms \in 0..MaxMs, seq \in 0..MaxSeq}
NextRange ==
    \/ \E text \in RangeTexts, kv \in Payloads : XaddStep(text, kv)
    \/ \E min_id, max_id \in RangeIds \cup {NoId} : XrangeStep(min_id, max_id)
    \/ \E start_id \in RangeIds : XreadStep(start_id)
SpecRange == Init /\ [][NextRange]_vars

\* the store, under set, get and increment
StoreValues == {"a", "1"}
TtlValues == {NoTtl} \cup {Ttl(ms) : ms \in (-1)..MaxTtl}
NextStore ==
    \/ \E key \in Keys, value \in StoreValues, expire_time \in TtlValues :
          SetStep(key, value, expire_time)
    \/ \E key \in Keys : GetStep(key)
    \/ \E key \in Keys : IncrStep(key)
    \/ Tick
SpecStore == Init /\ [][NextStore]_vars

SetArgv == <<"SET", "k", "a">>
PsyncArgv == <<"PSYNC", "?", "-1">>

\* a primary, its replicas and its clients, under SET and transactions
PropCommands == {PsyncArgv, SetArgv, <<"MULTI">>, <<"EXEC">>}
Next ==
    \/ \E c \in Conns, argv \in PropCommands : ncmd < MaxCmds /\ Recv(c, argv)
    \/ \E c \in Conns : ncmd < MaxCmds /\ Eof(c)
    \/ \E c \in Conns : Drain(c)
    \/ \E c \in Conns : SendRdb(c)
Spec == Init /\ [][Next]_vars

\* one client and its transaction
TxConns == 1..MaxTxConns
TxCommands ==
    {<<"MULTI">>, <<"EXEC">>, <<"DISCARD">>, SetArgv, <<"GET", "k">>,
     <<"INCR", "k">>, <<"REPLCONF", "ACK", "1">>}
NextTx ==
    \/ \E c \in TxConns, argv \in TxCommands : ncmd < MaxTxCmds /\ Recv(c, argv)
    \/ \E c \in TxConns : ncmd < MaxTxCmds /\ Eof(c)
SpecTx == Init /\ [][NextTx]_vars

\* a primary, its replicas and a client that waits for them; the clock is read
\* by WAIT only, so it is let advance only while some WAIT is polling
WaitConns == 1..MaxWaitConns
AckValues == {-1, SerLen(SetArgv)}
WaitCommands ==
    {PsyncArgv, SetArgv, <<"WAIT", "1", "1">>}
    \cup {<<"REPLCONF", "ACK", StrOf(n)>> : n \in AckValues}
NextWait ==
    \/ \E c \in WaitConns, argv \in WaitCommands :
          ncmd < MaxWaitCmds /\ Recv(c, argv)
    \/ \E c \in WaitConns : ncmd < MaxWaitCmds /\ Eof(c)
    \/ \E c \in WaitConns : Drain(c)
    \/ \E c \in WaitConns : SendRdb(c)
    \/ (\E c \in WaitConns : pc[c] = "wait") /\ Tick
    \/ \E c \in WaitConns : Poll(c)
SpecWait == Init /\ [][NextWait]_vars

\* a replica: its upstream connection and one client
AckArgv == <<"REPLCONF", "ACK", "1">>
UpstreamCommands ==
    {SetArgv, <<"INCR", "k">>, GetackArgv, AckArgv, <<"MULTI">>, <<"EXEC">>}
ClientCommands == {SetArgv, <<"GET", "k">>, <<"PING">>, GetackArgv, AckArgv}
NextReplica ==
    \/ Handshake(1)
    \/ \E argv \in UpstreamCommands : ncmd < MaxReplCmds /\ Recv(1, argv)
    \/ \E argv \in ClientCommands : ncmd < MaxReplCmds /\ Recv(2, argv)
    \/ \E c \in 1..2 : ncmd < MaxReplCmds /\ Eof(c)
SpecReplica == InitReplica /\ [][NextReplica]_vars

\* a primary, its replicas and its clients, when peers fail: transports are
\* lost and unknown commands arrive
UnknownArgv == <<"FOO">>
PeerConns == 1..MaxPeerConns
PeerCommands ==
    {PsyncArgv, SetArgv, <<"INCR", "k">>, <<"WAIT", "1", "0">>, UnknownArgv}
NextPeers ==
    \/ \E c \in PeerConns, argv \in PeerCommands :
          ncmd < MaxPeerCmds /\ Recv(c, argv)
    \/ \E c \in PeerConns : ncmd < MaxPeerCmds /\ Eof(c)
    \/ \E c \in PeerConns : ncmd < MaxPeerCmds /\ Reset(c)
    \/ \E c \in PeerConns : Drain(c)
    \/ \E c \in PeerConns : SendRdb(c)
SpecPeers == Init /\ [][NextPeers]_vars

\* a primary, a replica and a client whose transactions end by DISCARD
DiscardConns == 1..MaxDiscardConns
DiscardCommands == {PsyncArgv, SetArgv, <<"MULTI">>, <<"DISCARD">>}
NextDiscard ==
    \/ \E c \in DiscardConns, argv \in DiscardCommands :
          ncmd < MaxDiscardCmds /\ Recv(c, argv)
    \/ \E c \in DiscardConns : Drain(c)
    \/ \E c \in DiscardConns : SendRdb(c)
SpecDiscard == Init /\ [][NextDiscard]_vars

\* a primary, its replica (connection 1), a client that runs a transaction
\* (connection 2) and a client that writes (connection 3)
SetOtherArgv == <<"SET", "k", "b">>
ExecCommands == {<<"MULTI">>, SetArgv, <<"GET", "k">>, <<"EXEC">>}
NextExec ==
    \/ ncmd < MaxExecCmds /\ Recv(1, PsyncArgv)
    \/ \E argv \in ExecCommands : ncmd < MaxExecCmds /\ Recv(2, argv)
    \/ ncmd < MaxExecCmds /\ Recv(3, SetOtherArgv)
    \/ \E c \in 1..3 : Drain(c)
    \/ SendRdb(1)
SpecExec == Init /\ [][NextExec]_vars

\* a primary, a replica that runs this program (connection 1) and a client
\* that writes and waits (connection 2)
WaitNowArgv == <<"WAIT", "1", "0">>
NextAck ==
    \/ ncmd < MaxAckCmds /\ Recv(1, PsyncArgv)
    \/ \E argv \in {SetArgv, WaitNowArgv} : ncmd < MaxAckCmds /\ Recv(2, argv)
    \/ RecvAck(1)
    \/ \E c \in 1..2 : Drain(c)
    \/ SendRdb(1)
SpecAck == Init /\ [][NextAck]_vars

\* clients that append to a stream and read from it
XreadConns == 1..MaxXreadConns
XreadBlocks == (-1)..MaxBlock
XreadStarts == {IdText("dollar", 0, 0), IdText("full", 0, 0), IdText("full", MaxMs, 0)}
XaddTexts ==
    {IdText("star", 0, 0)}
    \cup {IdText("full", ms, seq) : ms \in 0..MaxMs, seq \in 0..MaxSeq}
NextXread ==
    \/ \E c \in XreadConns, block \in XreadBlocks, text \in XreadStarts :
          ncmd < MaxXreadCmds /\ RecvXread(c, block, text)
    \/ \E c \in XreadConns, text \in XaddTexts, kv \in Payloads :
          ncmd < MaxXreadCmds /\ RecvXadd(c, text, kv)
    \/ \E c \in XreadConns : PollXread(c)
    \/ Tick
SpecXread == Init /\ [][NextXread]_vars

\* ---------------------------------------------------------- the claims
Tail_id == most_recent_entry_id(entries)
StoredIds == {entries[i].id : i \in 1..Len(entries)}

\* C4: a key set at t0 with relative TTL T and not written since reads as its
\* value exactly at the times t < t0 + T; a get at t >= t0 + T returns absent
\* and removes the entry; a set without TTL never expires, whatever TTL the
\* key had before.
C4_TtlExpiry ==
    (dop.kind = "get" /\ hist[dop.key].set) =>
        LET h == hist[dop.key]
            live == ~h.ttl.some \/ dop.t < h.t0 + h.ttl.ms
        IN /\ (dop.ret = h.v) <=> live
           /\ ~live => (dop.ret = Absent /\ ~HasKey(database, dop.key))
           /\ live => (HasKey(database, dop.key) /\ database[dop.key].value = h.v)

C4_Witness ==
    /\ dop.kind = "get" /\ hist[dop.key].set
    /\ hist[dop.key].ttl.some /\ hist[dop.key].ttl.ms > 0
    /\ dop.t >= hist[dop.key].t0 + hist[dop.key].ttl.ms
    /\ dop.ret = Absent

\* C5: in every reachable state of a stream the stored IDs are strictly
\* increasing in insertion order, (0,0) is not stored, the tail ID is the
\* greatest stored ID ((0,0) when empty), and xrange(None, None) returns all
\* the entries in that order.
C5_StreamOrdered ==
    /\ \A i, j \in 1..Len(entries) : i < j => IdLt(entries[i].id, entries[j].id)
    /\ EntryId(0, 0) \notin StoredIds
    /\ IF entries = <<>> THEN Tail_id = EntryId(0, 0)
       ELSE Tail_id \in StoredIds /\ \A id \in StoredIds : IdLe(id, Tail_id)
    /\ xrange(entries, NoId, NoId) = entries

C5_Witness ==
    /\ Len(entries) = MaxEntries
    /\ sop.kind = "xadd" /\ ~sop.ok

\* C6: xadd(id, pairs) fails exactly when id = (0,0) or id <= tail_id; a failed
\* xadd changes neither the entries nor the table; a successful one appends
\* exactly one entry and sets last_seq_for_ms[id.ms] = id.seq, every other
\* entry of the table unchanged.
C6_XaddEffect ==
    [][(ev'.kind = "xadd" /\ sop'.kind = "xadd") =>
        LET id == sop'.id
            fails == id = EntryId(0, 0) \/ IdLe(id, Tail_id)
        IN /\ sop'.ok <=> ~fails
           /\ ~sop'.ok => (entries' = entries /\ seq_lookup' = seq_lookup)
           /\ sop'.ok =>
                /\ entries' = Append(entries, [id |-> id, kv |-> sop'.kv])
                /\ DOMAIN seq_lookup' = DOMAIN seq_lookup \cup {id.ms}
                /\ seq_lookup'[id.ms] = id.seq
                /\ \A ms \in DOMAIN seq_lookup \ {id.ms} :
                      seq_lookup'[ms] = seq_lookup[ms]]_vars

C6_Witness ==
    /\ sop.kind = "xadd" /\ sop.ok /\ Len(entries) = 2
    /\ entries[1].id.ms = entries[2].id.ms

\* C7: for an ID "<ms>-*" the sequence number assigned is last_seq_for_ms[ms] + 1
\* when the stream has accepted an entry with that ms, else 1 when ms = 0 and 0
\* when ms > 0; so an XADD "<ms>-*" with ms >= tail_id.ms always succeeds.
C7_AutoSeq ==
    [][(ev'.kind = "xadd" /\ sop'.kind = "xadd" /\ sop'.text.form = "auto") =>
        LET ms == sop'.text.ms
            accepted == {i \in 1..Len(entries) : entries[i].id.ms = ms}
            lastOne == CHOOSE i \in accepted : \A j \in accepted : j <= i
        IN /\ sop'.id.ms = ms
           /\ sop'.id.seq = IF accepted # {} THEN entries[lastOne].id.seq + 1
                            ELSE IF ms = 0 THEN 1 ELSE 0
           /\ accepted # {} => (HasKey(seq_lookup, ms) /\
                                sop'.id.seq = seq_lookup[ms] + 1)
           /\ ms >= Tail_id.ms => sop'.ok]_vars

C7_Witness ==
    /\ sop.kind = "xadd" /\ sop.text.form = "auto" /\ sop.ok
    /\ Len(entries) = 2 /\ entries[1].id.ms = entries[2].id.ms
    /\ entries[2].id.seq = entries[1].id.seq + 1

Queued == RespSimpleString("QUEUED")
IsSetFrame(f) == f.kind = "cmd" /\ f.argv[1] = "SET"
IsGetackFrame(f, c) == f.kind = "cmd" /\ f.argv = GetackArgv /\ f.src = c
Suspended(c) == pc[c] \in {"fanout", "wait"}

\* C1: on a client connection, between a successful MULTI and the next EXEC or
\* DISCARD every other command replies QUEUED and leaves the store alone, and
\* EXEC replies with an array of as many elements as commands were queued, the
\* i-th being the response of the i-th queued command.
C1_QueuedThenExec ==
    [][\A c \in Conns :
        (/\ ev'.kind = "recv" /\ ev'.c = c
         /\ get_connection_type(replicas, c) = "CLIENT"
         /\ transaction[c].active) =>
            /\ ev'.argv[1] \notin ControlCommands =>
                  /\ last'[c].done /\ last'[c].reply = Queued
                  /\ out'[c] = Append(out[c], RespFrame(Queued, c))
                  /\ database' = database
                  /\ transaction'[c].queue = Append(transaction[c].queue, ev'.argv)
            /\ (ev'.argv[1] = "EXEC" /\ ~Suspended(c)') =>
                  /\ last'[c].done /\ last'[c].reply.k = "array"
                  /\ Len(last'[c].reply.a) = Len(transaction[c].queue)
                  /\ \A i \in 1..Len(last'[c].reply.a) :
                        last'[c].reply.a[i] # NoneResp
                  /\ out'[c] = Append(out[c], RespFrame(last'[c].reply, c))]_vars

\* C2: every SET executed on a primary puts exactly one frame, the serialized
\* SET, on each replica then in the replica set, right after the execution,
\* however the SET came to be executed, a SET between MULTI and EXEC included.
C2_OneFramePerSet ==
    \A r \in Conns :
        /\ \A i \in 1..Len(out[r]) :
              IsSetFrame(out[r][i]) =>
                  /\ out[r][i].eff \in 1..Len(effects)
                  /\ \A j \in 1..Len(out[r]) :
                        (j # i /\ IsSetFrame(out[r][j])) => out[r][j].eff # out[r][i].eff
        /\ (\A c \in Conns : pc[c] \in {"idle", "closed", "rdb"}) =>
              \A e \in 1..Len(effects) :
                  r \in effects[e] =>
                      \E i \in 1..Len(out[r]) : IsSetFrame(out[r][i]) /\ out[r][i].eff = e

\* C3: of two propagated commands of different connections, the one whose
\* effect on the store came first is written first on every replica, under
\* every interleaving of the tasks at the drains of the fan-out.
C3_PropagationOrder ==
    \A r \in Conns :
        \A i, j \in 1..Len(out[r]) :
            (/\ i < j
             /\ IsSetFrame(out[r][i]) /\ IsSetFrame(out[r][j])
             /\ out[r][i].eff > 0 /\ out[r][j].eff > 0
             /\ out[r][i].src # out[r][j].src) => out[r][i].eff < out[r][j].eff

\* C8: after a replica has processed, over its upstream connection, mutating
\* commands of total serialized length L, master_repl_offset is L; it never
\* decreases; only a command arriving on the MASTER connection advances it.
C8_ReplOffset ==
    [][/\ (master' # 0 /\ rx'[master'].mut /\ pc'[master'] = "idle") =>
              master_repl_offset' = rx'[master'].len
       /\ master_repl_offset' >= master_repl_offset
       /\ master_repl_offset' # master_repl_offset =>
              (ev'.kind = "recv" /\ ev'.c = master)]_vars

C8_Witness ==
    /\ master # 0 /\ rx[master].mut /\ pc[master] = "idle"
    /\ master_repl_offset = 2 * SerLen(SetArgv)
    /\ last[2].done /\ last[2].argv = SetArgv

Targets == (-2)..(2 * SerLen(SetArgv))
NumAcked(t) == get_num_acked_replicas(replicas, ack_offset, t)

\* C9 as stated: for every target offset t, num_acked_replicas(t) never
\* decreases, across REPLCONF ACKs, PSYNC registrations and disconnections.
C9_NeverDecreases ==
    [][\A t \in Targets : NumAcked(t)' >= NumAcked(t)]_vars

NegativeAck(e) ==
    /\ e.kind = "recv" /\ e.argv[1] = "REPLCONF" /\ e.argv[2] = "ACK"
    /\ IntOf(e.argv[3]) < 0

\* C9 as amended: for every target offset t, num_acked_replicas(t) never
\* decreases across REPLCONF ACKs of non-negative offsets and PSYNC
\* registrations; the end of a replica's stream, which discards it from the
\* replica set, and an ACK of a negative offset can decrease it.
C9_NeverDecreasesWhileConnected ==
    [][(ev'.kind # "eof" /\ ~NegativeAck(ev')) =>
          \A t \in Targets : NumAcked(t)' >= NumAcked(t)]_vars

C9_Witness ==
    /\ Cardinality(replicas) = 2
    /\ \E r \in replicas : ack_offset[r] = SerLen(SetArgv)
    /\ NumAcked(SerLen(SetArgv)) = 1

IsWait(l) == l.argv # <<>> /\ l.argv[1] = "WAIT" /\ ~l.active
GetackFrames(c) ==
    {p \in UNION {{<<r, i>> : i \in 1..Len(out[r])} : r \in Conns} :
        IsGetackFrame(out[p[1]][p[2]], c)}
SentGetack(c) == GetackFrames(c) # {}

\* C10 as stated: WAIT broadcasts REPLCONF GETACK * exactly when the issuing
\* connection's propagate_offset is positive; with propagate_offset 0 it
\* broadcasts nothing and replies 0, whatever replicas are connected.
C10_WaitNoMutations ==
    \A c \in Conns :
        (IsWait(last[c]) /\ last[c].done) =>
            /\ SentGetack(c) <=> last[c].po > 0
            /\ last[c].po = 0 => last[c].reply = RespInteger(0)

\* C10 as amended: WAIT writes REPLCONF GETACK * to the replicas exactly when
\* the issuing connection's propagate_offset is positive and the replica set
\* is not empty; with propagate_offset 0 it broadcasts nothing and replies the
\* number of replicas in the replica set whose ack_offset is >= 0 (every
\* connected replica, unless it acknowledged a negative offset), which is 0
\* only when there is none.
C10_WaitBroadcast ==
    [][\A c \in Conns :
        /\ GetackFrames(c)' # GetackFrames(c) =>
              /\ ev'.c = c /\ IsWait(last'[c])
              /\ last'[c].po > 0 /\ propogate_offset'[c] > 0
        /\ (ev'.kind = "recv" /\ ev'.c = c /\ IsWait(last'[c])) =>
              /\ GetackFrames(c)' # GetackFrames(c)
                    <=> (last'[c].po > 0 /\ replicas # {})
              /\ last'[c].po = propogate_offset[c]
        /\ (/\ ev'.kind \in {"recv", "poll"} /\ ev'.c = c
            /\ IsWait(last'[c]) /\ last'[c].done /\ last'[c].po = 0) =>
              /\ last'[c].reply =
                    RespInteger(Cardinality({r \in replicas' : ack_offset'[r] >= 0}))
              /\ out'[c] = Append(out[c], RespFrame(last'[c].reply, c))]_vars

C10_Witness ==
    \E c \in Conns :
        /\ IsWait(last[c]) /\ last[c].done /\ last[c].po = 0
        /\ replicas # {} /\ last[c].reply = RespInteger(1)

C10_WitnessBroadcast ==
    \E c \in Conns : IsWait(last[c]) /\ last[c].done /\ SentGetack(c)

\* C11: every WAIT eventually replies, with an integer and never with an
\* error; so the task of a connection is never ended by an exception while
\* its WAIT has not replied, and the reply it writes is an integer.
C11_WaitReplies ==
    \A c \in Conns :
        IsWait(last[c]) =>
            /\ ~last[c].done => pc[c] # "crashed"
            /\ last[c].done => last[c].reply.k = "int"

ErrNested == RespSimpleError("ERR MULTI calls can not be nested")
ErrExec == RespSimpleError("ERR EXEC without MULTI")
ErrDiscard == RespSimpleError("ERR DISCARD without MULTI")
Replied(c, r) == last'[c].done /\ last'[c].reply = r
                    /\ out'[c] = Append(out[c], RespFrame(r, c))

\* C12: a mis-sequenced transaction command replies a simple error and leaves
\* the transaction as it was: MULTI while active replies 'ERR MULTI calls can
\* not be nested' and keeps the transaction active with its queue; EXEC and
\* DISCARD while inactive reply 'ERR EXEC without MULTI' and 'ERR DISCARD
\* without MULTI' and keep it inactive; none of them changes the store.
C12_MisSequenced ==
    [][\A c \in Conns :
        (ev'.kind = "recv" /\ ev'.c = c) =>
            /\ (ev'.argv[1] = "MULTI" /\ transaction[c].active) =>
                  /\ Replied(c, ErrNested)
                  /\ transaction'[c] = transaction[c]
                  /\ database' = database
            /\ (ev'.argv[1] = "EXEC" /\ ~transaction[c].active) =>
                  /\ Replied(c, ErrExec)
                  /\ transaction'[c] = transaction[c] /\ ~transaction'[c].active
                  /\ database' = database
            /\ (ev'.argv[1] = "DISCARD" /\ ~transaction[c].active) =>
                  /\ Replied(c, ErrDiscard)
                  /\ transaction'[c] = transaction[c] /\ ~transaction'[c].active
                  /\ database' = database]_vars

C12_Witness ==
    \E c \in Conns :
        /\ ev.kind = "recv" /\ ev.c = c /\ ev.argv[1] = "MULTI"
        /\ last[c].active /\ last[c].qlen > 0
        /\ last[c].reply = ErrNested
        /\ transaction[c].active /\ Len(transaction[c].queue) = last[c].qlen

RespSeq(c) == SelectSeq(out[c], LAMBDA f : f.kind = "resp")

\* C13: a connection reads command n+1 only when command n has finished
\* executing and its response, if it has one, was written, also when command
\* n was blocked (in WAIT); the responses are written in the order of the
\* commands, one at the end of each.
C13_OneAtATime ==
    [][\A c \in Conns :
        /\ (ev'.kind = "recv" /\ ev'.c = c) =>
              /\ pc[c] = "idle"
              /\ last[c].argv # <<>> =>
                    /\ last[c].done
                    /\ last[c].reply # NoneResp =>
                          /\ RespSeq(c) # <<>>
                          /\ RespSeq(c)[Len(RespSeq(c))] = RespFrame(last[c].reply, c)
        /\ RespSeq(c)' # RespSeq(c) =>
              /\ ev'.c = c /\ last'[c].done
              /\ RespSeq(c)' = Append(RespSeq(c), RespFrame(last'[c].reply, c))]_vars

C13_Witness ==
    \E c \in Conns :
        /\ ev.kind = "recv" /\ ev.c = c
        /\ Len(RespSeq(c)) = 2
        /\ RespSeq(c)[1].resp = RespInteger(0)
        /\ last[c].done /\ RespSeq(c)[2] = RespFrame(last[c].reply, c)

HasSetFrame(r, e) ==
    \E i \in 1..Len(out[r]) : IsSetFrame(out[r][i]) /\ out[r][i].eff = e
FanningOut(e) == \E c \in Conns : pc[c] = "fanout" /\ task[c].eff = e

\* C14: the writes of a fan-out are independent: when the write to one replica
\* fails, the frame is still written to every other replica of the set. So
\* once no task is fanning out an executed SET any more, and the replica set
\* is the one the SET was executed with, every replica of it whose transport
\* is not lost has been written the frame.
C14_IndependentWrites ==
    \A e \in 1..Len(effects) :
        (effects[e] = replicas /\ ~FanningOut(e)) =>
            \A r \in replicas \ broken : HasSetFrame(r, e)

\* C15: a failure serving one peer ends at most that peer's own task: a
\* command that is known, received on a connection whose own transport is
\* sound, never ends the task of that connection, whatever transports of
\* other connections were lost and whatever other connections sent; a client
\* whose SET or WAIT triggered a fan-out still gets its reply.
C15_FailuresContained ==
    [][\A c \in Conns :
        (/\ ev'.kind = "recv" /\ ev'.c = c
         /\ ev'.argv # UnknownArgv /\ c \notin broken) =>
            /\ pc'[c] # "crashed"
            /\ pc'[c] = "idle" =>
                  /\ last'[c].done
                  /\ out'[c] # <<>>
                  /\ out'[c][Len(out'[c])] = RespFrame(last'[c].reply, c)]_vars

Terminated(c) == pc[c] \in {"crashed", "closed"}

\* C16: a connection marked as a replica is removed from the replica set when
\* it stops being processed, by end of stream, by an unknown command or by an
\* I/O failure: every member of the replica set is a connection whose
\* processing loop is still running.
C16_ReplicasAlive ==
    \A r \in replicas : ~Terminated(r)

\* C17: on a connection that issued PSYNC the FULLRESYNC reply is immediately
\* followed by the snapshot: no frame of another connection's fan-out is
\* written to it between its registration and the snapshot.
C17_SnapshotFollowsReply ==
    \A r \in Conns :
        \A i \in 1..Len(out[r]) :
            out[r][i] = RespFrame(Fullresync, r) =>
                \/ i = Len(out[r])
                \/ out[r][i + 1] = RdbFrame(r)

LastFrame(q) == q[Len(q)]

\* C18: every command that mutates the primary's store (SET, INCR, XADD) is
\* fanned out to the replicas: the step that executes a command which changes
\* the store, while there are replicas, starts the fan-out of that command.
C18_MutatorsPropagated ==
    [][\A c \in Conns :
        (/\ ev'.kind = "recv" /\ ev'.c = c
         /\ database' # database /\ replicas # {}) =>
            \E r \in replicas :
                /\ Len(out'[r]) > Len(out[r])
                /\ \E i \in (Len(out[r]) + 1)..Len(out'[r]) :
                      /\ out'[r][i].kind = "cmd"
                      /\ out'[r][i].argv = ev'.argv
                      /\ out'[r][i].src = c]_vars

TypeOf(c) == get_connection_type(replicas, c)
IsAck(argv) == argv[1] = "REPLCONF" /\ argv[2] = "ACK"
Wrote(c, r) ==
    IF r = NoneResp THEN out'[c] = out[c]
    ELSE out'[c] = Append(out[c], RespFrame(r, c))

IsXread(argv) == argv # <<>> /\ argv[1] = "XREAD"

\* C20: an XREAD replies with the grouped array as soon as it polls while the
\* stream it names holds an entry with id > its start id, otherwise replies
\* null bulk once now >= its deadline (at once without BLOCK, never with
\* BLOCK 0), and until then keeps polling; $ is the tail at call time. So no
\* pass of an XREAD ends the connection's task without a reply.
C20_XreadReplies ==
    [][\A c \in Conns :
        (ev'.kind \in {"recv", "xpoll"} /\ ev'.c = c /\ IsXread(ev'.argv)) =>
            LET found == xread(entries, xr'[c].start)
            IN /\ pc'[c] # "crashed"
               /\ found # <<>> =>
                     /\ last'[c].done /\ last'[c].reply = XreadArray(found)
               /\ (found = <<>> /\ now >= xr'[c].deadline) =>
                     /\ last'[c].done /\ last'[c].reply = RespNullBulk
               /\ (found = <<>> /\ now < xr'[c].deadline) =>
                     /\ ~last'[c].done /\ pc'[c] = "xread"
               /\ (ev'.kind = "recv" /\ ev'.argv[Len(ev'.argv)] = "$") =>
                     xr'[c].start = Tail_id]_vars

Handshaking(p) == p \in {"start", "hs1", "hs2", "hs3", "hs4", "hs5"}
\* the lines and the snapshot read from the upstream connection so far
HandshakeReads(p) ==
    CASE p = "start" -> 0 [] p = "hs1" -> 0 [] p = "hs2" -> 1 [] p = "hs3" -> 2
      [] p = "hs4" -> 3 [] p = "hs5" -> 4 [] OTHER -> 5
CmdFrames(q) == SelectSeq(q, LAMBDA f : f.kind = "cmd")
CmdSeq(c) == CmdFrames(out[c])
Upto(n, m) == IF n < m THEN n ELSE m

\* C21: a replica sends on its upstream connection PING, REPLCONF
\* listening-port <port>, REPLCONF capa psync2 and PSYNC ? -1 in this order,
\* each only after one reply line to the step before was read; it then reads
\* the snapshot header and the snapshot, and it executes no command of the
\* upstream connection before the handshake has completed.
C21_HandshakeOrder ==
    [][master' # 0 =>
        LET c == master'
            p == pc'[c]
            sent == CmdFrames(out'[c])
            n == IF p = "start" THEN 0 ELSE Upto(HandshakeReads(p) + 1, 4)
        IN /\ Len(sent) = n
           /\ n >= 1 => sent[1].argv = <<"PING">>
           /\ n >= 2 => sent[2].argv = <<"REPLCONF", "listening-port", "6380">>
           /\ n >= 3 => sent[3].argv = <<"REPLCONF", "capa", "psync2">>
           /\ n >= 4 => sent[4].argv = <<"PSYNC", "?", "-1">>
           /\ Handshaking(p) =>
                 /\ out'[c] = sent
                 /\ rx'[c].len = 0 /\ last'[c] = NoLast
                 /\ master_repl_offset' = 0
           /\ (ev'.kind = "recv" /\ ev'.c = c) =>
                 /\ HandshakeReads(pc[c]) = 5
                 /\ Len(CmdFrames(out[c])) = 4]_vars

C21_Witness ==
    /\ master # 0 /\ pc[master] = "idle"
    /\ Len(CmdSeq(master)) = 4
    /\ last[master].done /\ last[master].argv = SetArgv
    /\ master_repl_offset = SerLen(SetArgv)
    /\ HasKey(database, "k")

CountSets(q) == Len(SelectSeq(q, LAMBDA argv : argv[1] = "SET"))

\* C22: EXEC in the Active state takes the queue and makes the transaction
\* Inactive before the first queued command runs: every queued command is
\* executed exactly once and none is queued again, the transaction is
\* Inactive when EXEC returns, and the next command on the connection is
\* executed at once instead of replying QUEUED.
C22_ExecTakesQueue ==
    [][\A c \in Conns :
        (ev'.kind = "recv" /\ ev'.c = c) =>
            /\ (ev'.argv[1] = "EXEC" /\ transaction[c].active /\ last'[c].done) =>
                  /\ transaction'[c] = NoTx
                  /\ last'[c].reply.k = "array"
                  /\ Len(last'[c].reply.a) = Len(transaction[c].queue)
                  /\ \A i \in 1..Len(last'[c].reply.a) :
                        /\ last'[c].reply.a[i] # Queued
                        /\ transaction[c].queue[i][1] = "SET" =>
                              last'[c].reply.a[i] = RespSimpleString("OK")
                        /\ transaction[c].queue[i][1] = "INCR" =>
                              last'[c].reply.a[i].k \in {"int", "error"}
                  /\ Len(effects') = Len(effects) + CountSets(transaction[c].queue)
            /\ (/\ last[c].argv = <<"EXEC">> /\ last[c].active /\ last[c].done
                /\ ev'.argv[1] \notin ControlCommands) =>
                  /\ ~transaction[c].active
                  /\ last'[c].done /\ last'[c].reply # Queued
                  /\ transaction'[c] = NoTx]_vars

C22_Witness ==
    \E c \in Conns :
        /\ ev.kind = "recv" /\ ev.c = c /\ ev.argv = <<"EXEC">>
        /\ last[c].active /\ last[c].qlen = 2 /\ last[c].done
        /\ Len(last[c].reply.a) = 2 /\ last[c].reply.a[1] = RespSimpleString("OK")
        /\ transaction[c] = NoTx /\ Len(effects) = 1

\* C23: a replica answers REPLCONF GETACK * of its primary with REPLCONF ACK
\* <n>, n being master_repl_offset before the GETACK itself is counted, which
\* is the total serialized length of the commands received from the primary
\* before this GETACK; after the reply master_repl_offset has grown by the
\* serialized length of the GETACK.
C23_GetackOffset ==
    [][\A c \in Conns :
        (/\ ev'.kind = "recv" /\ ev'.c = c /\ c = master
         /\ ev'.argv = GetackArgv /\ ~transaction[c].active) =>
            /\ last'[c].done
            /\ last'[c].reply = AckReply(master_repl_offset)
            /\ master_repl_offset = rx[c].len
            /\ out'[c] = Append(out[c], RespFrame(AckReply(rx[c].len), c))
            /\ master_repl_offset' = master_repl_offset + SerLen(GetackArgv)]_vars

IdsOf(q) == {q[i].id : i \in 1..Len(q)}
InIdOrder(q) == \A i, j \in 1..Len(q) : i < j => IdLt(q[i].id, q[j].id)
EntriesOfStream(q) == \A i \in 1..Len(q) : \E j \in 1..Len(entries) : entries[j] = q[i]

\* C24: xrange(min, max) returns exactly the entries with min <= id <= max in
\* ID order, an absent min meaning (0,0) and an absent max including every
\* entry up to the tail; xread(start_id) returns exactly the entries with
\* id > start_id, which is xrange(start_id + (0,1), absent).
C24_RangeExact ==
    /\ sop.kind = "xrange" =>
          LET lo == IF sop.min = NoId THEN EntryId(0, 0) ELSE sop.min
          IN /\ IdsOf(sop.ret) =
                   {id \in StoredIds :
                       IdLe(lo, id) /\ (sop.max = NoId \/ IdLe(id, sop.max))}
             /\ InIdOrder(sop.ret) /\ EntriesOfStream(sop.ret)
    /\ sop.kind = "xread" =>
          /\ IdsOf(sop.ret) = {id \in StoredIds : IdLt(sop.min, id)}
          /\ InIdOrder(sop.ret) /\ EntriesOfStream(sop.ret)
          /\ sop.ret = xrange(entries, IdAdd(sop.min, EntryId(0, 1)), NoId)

C24_Witness ==
    /\ sop.kind = "xrange" /\ Len(entries) = MaxEntries
    /\ sop.min # NoId /\ sop.max # NoId
    /\ Len(sop.ret) = 1 /\ sop.ret[1].id = sop.max

FramesFrom(q, c) == SelectSeq(q, LAMBDA f : f.kind = "cmd" /\ f.src = c)

\* C25: a command queued inside a transaction that DISCARD ends has no effect
\* anywhere: where no EXEC is ever sent, no step taken while a connection's
\* transaction is active sends a frame of that connection to any replica or
\* advances its propagate_offset, no command that connection sends in the
\* transaction changes the store, and DISCARD drops the queue.
C25_DiscardedNoEffect ==
    [][\A c \in Conns :
        transaction[c].active =>
            /\ propogate_offset'[c] = propogate_offset[c]
            /\ \A r \in Conns : FramesFrom(out'[r], c) = FramesFrom(out[r], c)
            /\ ev'.c = c => database' = database
            /\ (ev'.kind = "recv" /\ ev'.c = c /\ ev'.argv = <<"DISCARD">>) =>
                  transaction'[c] = NoTx]_vars

\* the EXEC of connection c has run a queued command and has more to run
MidExec(c) == task[c].inexec /\ task[c].exq # <<>> /\ pc[c] = "fanout"

\* C26: the queued commands of one EXEC run as an isolated block: between the
\* execution of the first and of the last queued command of an EXEC no
\* command of another connection is executed against the store, also when a
\* queued command is suspended in the write/drain of a propagated SET.
C26_ExecIsolated ==
    [][\A c, d \in Conns :
        (c # d /\ MidExec(c) /\ ev'.kind = "recv" /\ ev'.c = d) =>
            /\ database' = database
            /\ Len(effects') = Len(effects)]_vars

\* C27: when the replicas run this program, the ack_offset of a replica
\* connection never exceeds the number of bytes the primary has written to
\* that replica after the snapshot, after any number of WAIT/GETACK/ACK
\* rounds.
C27_AckWithinWritten ==
    \A r \in replicas : ack_offset[r] <= BytesWritten(out[r])

\* C28: an XADD that replies with an error leaves the store unchanged: a
\* WRONGTYPE reply keeps the string and its expiry, and an ID error on a key
\* that did not exist does not create the key, so TYPE reports none and KEYS
\* does not list it afterwards.
C28_XaddErrorNoChange ==
    [][\A c \in Conns :
        (/\ ev'.kind = "recv" /\ ev'.c = c /\ ev'.argv[1] = "XADD"
         /\ last'[c].done /\ last'[c].reply.k = "error") =>
            /\ database' = database
            /\ entries' = entries
            /\ ~HasKey(database, ev'.argv[2]) =>
                  /\ type_str(database', ev'.argv[2], now) = "none"
                  /\ ev'.argv[2] \notin db_keys(database')]_vars

\* C29: INCR treats a key whose expiry time has passed as absent: increment(k)
\* at a time >= expire_timestamp of k stores "1" with no expiry and returns 1,
\* as for a key that was never set, whether or not a get(k) has removed the
\* expired entry before.
C29_IncrExpired ==
    [][(/\ ev'.kind = "incr"
        /\ HasKey(database, dop'.key) =>
              now >= database[dop'.key].expire_timestamp) =>
          /\ dop'.ret = StrVal("1")
          /\ database'[dop'.key] = Item(StrVal("1"), Inf)]_vars

\* C30: a fan-out in progress completes without error and delivers the frame
\* to every replica that was in the replica set when it started and is still
\* connected, also when another task adds a replica (PSYNC) or removes one
\* (end of stream) while the fan-out is suspended at a drain.
C30_FanoutCompletes ==
    [][\A c \in Conns :
        (ev'.kind = "drain" /\ ev'.c = c) =>
            /\ pc'[c] # "crashed"
            /\ (pc'[c] # "fanout" /\ task[c].eff > 0) =>
                  \A r \in effects[task[c].eff] \cap replicas' :
                      \E i \in 1..Len(out'[r]) :
                          /\ IsSetFrame(out'[r][i])
                          /\ out'[r][i].eff = task[c].eff]_vars

====
